---- MODULE Spec2Model ----
(***************************************************************************)
(* The authenticated-fetch layer of the Yahoo Finance MCP server: the      *)
(* cookie/crumb cache (getCrumb / getCookieAndCrumb), the request wrapper  *)
(* fetchYahoo and the nine tool functions that call it.                    *)
(*                                                                         *)
(* The repository holds two builds of the API client.  impl = "optional"   *)
(* is src/src/yahoo-finance-api.ts (a failed handshake falls back to an    *)
(* unauthenticated request); impl = "required" is src/unnamed/part_001 (a  *)
(* failed handshake throws).  A process runs one of them.                  *)
(*                                                                         *)
(* Strings are sequences of pieces.  A piece is one character, or a        *)
(* literal fragment of a URL or message template; a fragment holds no "?"  *)
(* (the one character the code looks for in a URL).  Response bodies and   *)
(* Set-Cookie headers are spelled character by character.                  *)
(* null is the one-piece sequence << "" >>, which no string equals.        *)
(***************************************************************************)
EXTENDS Integers, Sequences, FiniteSets, TLC

\* ------------------------------------------------------------- bounds
\* Two scenarios share the actions.  Sequential: one caller issues tool
\* calls one after the other, every tool, every upstream answer, MaxTicks
\* clock ticks.  Concurrent: NumTasks tool calls of RaceTools interleave at
\* their awaits during RaceTicks clock ticks.
NumTasks == 2
MaxTicks == 4
RaceTicks == 2
\* the clock moves in steps of TickMs milliseconds (10 minutes)
TickMs == 600000
\* the longest error body is PREVIEW_LEN + MaxBodyExtra characters
MaxBodyExtra == 1
\* a request path is "/" followed by at most MaxPathLen segments
MaxPathLen == 3
\* an upgrade/downgrade history holds at most MaxHistory entries, dated
\* from second 0 to second MaxEpoch
MaxHistory == 3
MaxEpoch == 2

\* ---------------------------------------------------------- constants
CACHE_TTL == 30 * 60 * 1000
PREVIEW_LEN == 200

Tasks == 1 .. NumTasks
Impls == {"optional", "required"}

null == << "" >>
Truthy(s) == s # null /\ s # << >>

\* ------------------------------------------------------ string helpers
Min(a, b) == IF a < b THEN a ELSE b

\* String.prototype.slice(0, n)
Slice(s, n) == SubSeq(s, 1, Min(n, Len(s)))

\* String.prototype.includes(sub)
Includes(s, sub) ==
  \E i \in 1 .. (Len(s) - Len(sub) + 1) : SubSeq(s, i, i + Len(sub) - 1) = sub

\* index of the first occurrence of piece c in s, 0 when there is none
RECURSIVE IndexOf(_, _, _)
IndexOf(s, c, i) ==
  IF i > Len(s) THEN 0
  ELSE IF s[i] = c THEN i
  ELSE IndexOf(s, c, i + 1)

\* String.prototype.split(c): a sequence of strings, never empty
RECURSIVE Split(_, _)
Split(s, c) ==
  LET k == IndexOf(s, c, 1) IN
  IF k = 0 THEN << s >>
  ELSE << SubSeq(s, 1, k - 1) >> \o Split(SubSeq(s, k + 1, Len(s)), c)

\* String.prototype.trim()
RECURSIVE TrimLeft(_)
TrimLeft(s) ==
  IF s # << >> /\ s[1] = " " THEN TrimLeft(Tail(s)) ELSE s

RECURSIVE TrimRight(_)
TrimRight(s) ==
  IF s # << >> /\ s[Len(s)] = " " THEN TrimRight(SubSeq(s, 1, Len(s) - 1)) ELSE s

Trim(s) == TrimRight(TrimLeft(s))

\* Array.prototype.join(sep)
RECURSIVE Join(_, _)
Join(parts, sep) ==
  IF parts = << >> THEN << >>
  ELSE IF Len(parts) = 1 THEN parts[1]
  ELSE parts[1] \o sep \o Join(Tail(parts), sep)

\* Array.prototype.filter(Boolean) on an array of strings
RECURSIVE FilterBoolean(_)
FilterBoolean(parts) ==
  IF parts = << >> THEN << >>
  ELSE IF parts[1] = << >> THEN FilterBoolean(Tail(parts))
  ELSE << parts[1] >> \o FilterBoolean(Tail(parts))

\* c => c.split(";")[0].trim()
NameValue(c) == Trim(Split(c, ";")[1])

MapNameValue(parts) == [i \in 1 .. Len(parts) |-> NameValue(parts[i])]

\* encodeURIComponent: the characters of the model's alphabet that are
\* not unreserved, with their percent codes; every other piece is unreserved
PercentCode ==
  ("&" :> << "%", "2", "6" >>) @@ ("<" :> << "%", "3", "C" >>) @@
  (">" :> << "%", "3", "E" >>) @@ (" " :> << "%", "2", "0" >>) @@
  ("=" :> << "%", "3", "D" >>) @@ (";" :> << "%", "3", "B" >>) @@
  ("?" :> << "%", "3", "F" >>) @@ ("/" :> << "%", "2", "F" >>) @@
  ("," :> << "%", "2", "C" >>) @@ ("%" :> << "%", "2", "5" >>)

RECURSIVE encodeURIComponent(_)
encodeURIComponent(s) ==
  IF s = << >> THEN << >>
  ELSE (IF s[1] \in DOMAIN PercentCode THEN PercentCode[s[1]] ELSE << s[1] >>)
       \o encodeURIComponent(Tail(s))

\* ------------------------------------------------------------ upstream
BASE_URL == "https://query1.finance.yahoo.com"
BASE_URL_V2 == "https://query2.finance.yahoo.com"

HEADERS ==
  ("User-Agent" :> << "Mozilla/5.0 (Macintosh; Intel Mac OS X 10_15_7) AppleWebKit/537.36 (KHTML, like Gecko) Chrome/120.0.0.0 Safari/537.36" >>) @@
  ("Accept" :> << "text/html,application/xhtml+xml,application/xml;q=0.9,image/webp,*/*;q=0.8" >>) @@
  ("Accept-Language" :> << "en-US,en;q=0.5" >>)

\* { ...HEADERS, "Cookie": cookies }
WithCookie(cookie) == ("Cookie" :> cookie) @@ HEADERS

Request(kind, url, headers, redirect) ==
  [kind |-> kind, url |-> url, headers |-> headers, redirect |-> redirect]

\* What the upstream may answer.  kind "exception": fetch() (or reading the
\* body) rejects.  json is the shape of a parsed body: "invalid" (json()
\* throws), "error" (an embedded error object, no result[0]), "errordata"
\* (an embedded error object beside a result[0]), "empty" (neither),
\* "nooptions" (a result[0] without options[0]) or "data".
Response(kind, ok, status, setCookie, body, json) ==
  [kind |-> kind, ok |-> ok, status |-> status, setCookie |-> setCookie,
   body |-> body, json |-> json]

NoResponse == Response("none", FALSE, 0, null, << >>, "none")
Rejected == Response("exception", FALSE, 0, null, << >>, "none")

SetCookieHeaders ==
  { null,
    << "a", "=", "1", ";", "p", ",", " ", "b", "=", "2" >>,
    << "b", "=", "2" >>,
    << "," >> }

CrumbBodies ==
  { << >>,
    << "<", "p", ">" >>,
    << "x", "e", "r", "r", "o", "r" >>,
    << "c", "&", "d" >>,
    << "A", "b" >> }

LongBody == [i \in 1 .. (PREVIEW_LEN + MaxBodyExtra) |-> IF i > PREVIEW_LEN THEN "y" ELSE "x"]
ErrorBodies == { << "n", "f" >>, LongBody }
ErrorStatuses == {401, 404}
JsonKinds == {"invalid", "error", "errordata", "empty", "nooptions", "data"}

\* data.chart?.error, data.quoteSummary?.error, data.optionChain?.error
HasError(json) == json \in {"error", "errordata"}

\* data.chart?.result?.[0] and the like
HasResult(json) == json \in {"errordata", "nooptions", "data"}

\* result.options?.[0]
HasOptions(json) == json \in {"errordata", "data"}

CookieResponses ==
  {Rejected} \cup {Response("http", TRUE, 200, h, << >>, "none") : h \in SetCookieHeaders}

CrumbResponses ==
  {Rejected}
  \cup {Response("http", TRUE, 200, null, b, "none") : b \in CrumbBodies}
  \cup {Response("http", FALSE, 401, null, << "A", "b" >>, "none")}

DataResponses ==
  {Rejected}
  \cup {Response("http", TRUE, 200, null, << >>, j) : j \in JsonKinds}
  \cup {Response("http", FALSE, st, null, b, "none") : st \in ErrorStatuses, b \in ErrorBodies}

\* The concurrent scenario's tools and answers: a tool that asks for the
\* crumb, cookie answers with and without a cookie, crumb answers that are
\* accepted and refused, and a data answer (which never touches the cache).
RaceTools == {"getStockInfo"}
RaceCookieResponses ==
  {Response("http", TRUE, 200, h, << >>, "none") : h \in SetCookieHeaders \ {<< "," >>}}
RaceCrumbResponses ==
  {Response("http", TRUE, 200, null, b, "none") :
     b \in {<< >>, << "c", "&", "d" >>, << "A", "b" >>}}
RaceDataResponses == {Response("http", TRUE, 200, null, << >>, "data")}

StatusText(status) == IF status = 404 THEN "Not Found" ELSE "Unauthorized"

\* --------------------------------------------------------------- tools
ToolNames ==
  { "getHistoricalStockPrices", "getStockInfo", "getYahooFinanceNews",
    "getStockActions", "getFinancialStatement", "getHolderInfo",
    "getOptionExpirationDates", "getOptionChain", "getRecommendations" }

Ticker == << "B", "/", "B" >>

\* mutant: every tool asks for the crumb
NeedsCrumbAlways(i, t) == TRUE

\* second argument of the tool's fetchYahoo call
NeedsCrumb(i, t) ==
  IF i = "optional"
  THEN t \notin {"getHistoricalStockPrices", "getYahooFinanceNews", "getStockActions"}
  ELSE t # "getYahooFinanceNews"

QuoteSummary(module) ==
  << BASE_URL_V2, "/v10/finance/quoteSummary/" >> \o encodeURIComponent(Ticker)
    \o << "?", "modules=", module >>

\* first argument of the tool's fetchYahoo call (default parameters)
Url(t) ==
  CASE t = "getHistoricalStockPrices" ->
         << BASE_URL, "/v8/finance/chart/" >> \o encodeURIComponent(Ticker)
           \o << "?", "range=", "1mo", "&", "interval=", "1d", "&", "includeAdjustedClose=true" >>
    [] t = "getStockInfo" ->
         QuoteSummary("assetProfile,summaryProfile,summaryDetail,financialData,defaultKeyStatistics,calendarEvents,price")
    [] t = "getYahooFinanceNews" ->
         << BASE_URL, "/v1/finance/search", "?", "q=" >> \o encodeURIComponent(Ticker)
           \o << "&", "newsCount=10", "&", "enableFuzzyQuery=false" >>
    [] t = "getStockActions" ->
         << BASE_URL, "/v8/finance/chart/" >> \o encodeURIComponent(Ticker)
           \o << "?", "range=max", "&", "interval=1d", "&", "events=div,split" >>
    [] t = "getFinancialStatement" -> QuoteSummary("incomeStatementHistory")
    [] t = "getHolderInfo" -> QuoteSummary("majorHoldersBreakdown")
    [] t = "getOptionExpirationDates" ->
         << BASE_URL, "/v7/finance/options/" >> \o encodeURIComponent(Ticker)
    [] t = "getOptionChain" ->
         << BASE_URL, "/v7/finance/options/" >> \o encodeURIComponent(Ticker)
           \o << "?", "date=", "1767225600" >>
    [] t = "getRecommendations" -> QuoteSummary("recommendationTrend")

\* ----------------------------------------------------- thrown errors
\* String(error) of what the code throws or what fetch()/json() reject with
NetworkError == << "TypeError: ", "fetch failed" >>
JsonError == << "SyntaxError: ", "Unexpected token" >>
CookieError == << "Error: ", "Failed to get Yahoo cookie" >>
CrumbError == << "Error: ", "Failed to get Yahoo crumb" >>

\* mutant: the whole body in the message
HttpErrorWholeBody(i, r) ==
  IF i = "optional"
  THEN << "Error: ", "HTTP ", ToString(r.status), ": " >> \o r.body
  ELSE << "Error: ", "HTTP ", ToString(r.status), ": ", StatusText(r.status) >>

\* new Error(`HTTP ${response.status}: ...`)
HttpError(i, r) ==
  IF i = "optional"
  THEN << "Error: ", "HTTP ", ToString(r.status), ": " >> \o Slice(r.body, PREVIEW_LEN)
  ELSE << "Error: ", "HTTP ", ToString(r.status), ": ", StatusText(r.status) >>

\* ----------------------------------------------------- tool results
Text(t) == [kind |-> "text", text |-> t]
Thrown(e) == [kind |-> "throw", text |-> e]
NoResult == [kind |-> "none", text |-> << >>]

\* mutant: the result is looked at before the error object
ToolParseResultFirst(t, r) ==
  IF r.json = "invalid" THEN Thrown(JsonError)
  ELSE IF t = "getYahooFinanceNews"
  THEN (IF r.json = "data" THEN Text(<< "Title: ", "..." >>)
        ELSE Text(<< "No news found for " >> \o Ticker \o << "." >>))
  ELSE IF HasResult(r.json)
  THEN (IF ~ HasOptions(r.json) /\ t = "getOptionChain"
        THEN Text(<< "No options for ", "2026-01-01", ". Use get_option_expiration_dates first." >>)
        ELSE Text(<< "JSON" >>))
  ELSE IF HasError(r.json) THEN Text(<< "Error: ", "description" >>)
  ELSE Text(<< "Ticker " >> \o Ticker \o << " not found." >>)

\* the body of a tool's try block after fetchYahoo returned response r
ToolParse(t, r) ==
  IF r.json = "invalid" THEN Thrown(JsonError)
  ELSE IF t = "getYahooFinanceNews"
  THEN (IF r.json = "data" THEN Text(<< "Title: ", "..." >>)
        ELSE Text(<< "No news found for " >> \o Ticker \o << "." >>))
  ELSE IF HasError(r.json) THEN Text(<< "Error: ", "description" >>)
  ELSE IF ~ HasResult(r.json) THEN Text(<< "Ticker " >> \o Ticker \o << " not found." >>)
  ELSE IF ~ HasOptions(r.json) /\ t = "getOptionChain"
  THEN Text(<< "No options for ", "2026-01-01", ". Use get_option_expiration_dates first." >>)
  ELSE Text(<< "JSON" >>)

\* fetchYahoo from the answer r to its data request on: it throws on a
\* rejected fetch and on a status that is not ok, else returns r
FetchResult(i, r) ==
  IF r.kind = "exception" THEN Thrown(NetworkError)
  ELSE IF ~ r.ok THEN Thrown(HttpError(i, r))
  ELSE [kind |-> "response", text |-> << >>]

\* the tool's try block from the answer r to the data request on
TryBody(i, t, r) ==
  IF FetchResult(i, r).kind = "throw" THEN FetchResult(i, r) ELSE ToolParse(t, r)

\* mutant: the tool function has no try/catch
ToolNoCatch(x) == x

\* try { ... } catch (error) { return `Error: ${error}`; }
ToolCatch(x) ==
  IF x.kind = "throw" THEN Text(<< "Error: " >> \o x.text) ELSE x

\* ------------------------------------------------------ the handshake
\* setCookie.split(",").map(c => c.split(";")[0].trim())[.filter(Boolean)].join("; ")
ParseSetCookie(i, header) ==
  IF i = "optional"
  THEN (IF Truthy(header)
        THEN Join(FilterBoolean(MapNameValue(Split(header, ","))), << ";", " " >>)
        ELSE << >>)
  ELSE Join(MapNameValue(Split(IF Truthy(header) THEN header ELSE << >>, ",")), << ";", " " >>)

\* mutant: the empty body is not refused
CrumbInvalidButEmpty(i, r) ==
  IF i = "optional"
  THEN ~ r.ok \/ Includes(r.body, << "<" >>)
         \/ Includes(r.body, << "e", "r", "r", "o", "r" >>)
  ELSE Includes(r.body, << "e", "r", "r", "o", "r" >>)

\* the crumb response is refused
CrumbInvalid(i, r) ==
  IF i = "optional"
  THEN ~ r.ok \/ r.body = << >> \/ Includes(r.body, << "<" >>)
         \/ Includes(r.body, << "e", "r", "r", "o", "r" >>)
  ELSE r.body = << >> \/ Includes(r.body, << "e", "r", "r", "o", "r" >>)

\* mutant: the lifetime written as 30 * 1000
NewExpiryInSeconds(nowv) == nowv + 30 * 1000

\* cacheExpiry = now + 30 * 60 * 1000
NewExpiry(nowv) == nowv + CACHE_TTL

Pair(cookie, crumb) == [kind |-> "pair", cookie |-> cookie, crumb |-> crumb]
NullAuth == [kind |-> "null", cookie |-> null, crumb |-> null]
ThrowAuth == [kind |-> "throw", cookie |-> null, crumb |-> null]
NoAuth == [kind |-> "none", cookie |-> null, crumb |-> null]

CookieRequest(i) ==
  IF i = "optional"
  THEN Request("fc", << "https://fc.yahoo.com" >>, HEADERS, "manual")
  ELSE Request("home", << "https://finance.yahoo.com" >>, HEADERS, "follow")

FallbackRequest == Request("finance", << "https://finance.yahoo.com" >>, HEADERS, "follow")

CrumbRequest(i, cookie) ==
  Request("crumb",
          << IF i = "optional" THEN BASE_URL ELSE BASE_URL_V2, "/v1/test/getcrumb" >>,
          WithCookie(cookie), "default")

\* ------------------------------------------------------ fetchYahoo
\* mutant: the crumb appended as it is
FinalUrlUnencoded(url, crumb) ==
  url \o << IF Includes(url, << "?" >>) THEN "&" ELSE "?", "crumb=" >> \o crumb

\* finalUrl += (url.includes("?") ? "&" : "?") + `crumb=${encodeURIComponent(crumb)}`
FinalUrl(url, crumb) ==
  url \o << IF Includes(url, << "?" >>) THEN "&" ELSE "?", "crumb=" >>
      \o encodeURIComponent(crumb)

\* the request of fetch(finalUrl, { headers }) given what getCrumb returned
DataRequest(url, a) ==
  IF a.kind = "pair"
  THEN Request("data", FinalUrl(url, a.crumb), WithCookie(a.cookie), "default")
  ELSE Request("data", url, HEADERS, "default")

\* ------------------------------------------------- the HTTP entrypoint
\* mutant: the prefix looked for anywhere in the path
StartsWithAnywhere(s, prefix) == Includes(s, prefix)

\* String.prototype.startsWith(prefix)
StartsWith(s, prefix) ==
  Len(s) >= Len(prefix) /\ SubSeq(s, 1, Len(prefix)) = prefix

\* url.pathname: "/" followed by segments, spelled character by character
PathSegments ==
  { << "/" >>, << "s", "s", "e" >>, << "m", "c", "p" >>,
    << "h", "e", "a", "l", "t", "h" >>, << "x" >> }

Pathnames ==
  { << "/" >> \o Join(w, << >>) :
      w \in UNION {[1 .. n -> PathSegments] : n \in 0 .. MaxPathLen} }

\* what the entrypoint answers: handler is what produced the response
NoAnswer == [handler |-> "none", status |-> 0, body |-> "none"]
Documentation ==
  [handler |-> "Response.json", status |-> 200, body |-> "Yahoo Finance MCP Server"]
ServeSSE == [handler |-> "serveSSE", status |-> 0, body |-> "/sse"]
Serve == [handler |-> "serve", status |-> 0, body |-> "/mcp"]
NotFound == [handler |-> "new Response", status |-> 404, body |-> "Not found"]

\* the if-chain of the default export's fetch
Route(p) ==
  IF p = << "/" >> \/ p = << "/", "h", "e", "a", "l", "t", "h" >> THEN Documentation
  ELSE IF StartsWith(p, << "/", "s", "s", "e" >>) THEN ServeSSE
  ELSE IF StartsWith(p, << "/", "m", "c", "p" >>) THEN Serve
  ELSE NotFound

\* ------------------------------- getRecommendations: upgrades_downgrades
Firms == {"A", "B"}

\* an entry of upgradeDowngradeHistory.history; dated FALSE: the entry has
\* no epochGradeDate
Entries ==
  [firm : Firms, dated : {TRUE}, epochGradeDate : 0 .. MaxEpoch]
  \cup [firm : Firms, dated : {FALSE}, epochGradeDate : {0}]

Histories == UNION {[1 .. n -> Entries] : n \in 0 .. MaxHistory}

Cutoffs == (0 - 1) .. MaxEpoch

\* item.epochGradeDate as a condition
HasDate(item) == item.dated /\ item.epochGradeDate # 0

\* item.epochGradeDate || 0
DateOrZero(item) == IF HasDate(item) THEN item.epochGradeDate ELSE 0

\* Array.prototype.filter
RECURSIVE SelectSeq2(_, _)
SelectSeq2(list, keep) ==
  IF list = << >> THEN << >>
  ELSE (IF keep[1] THEN << list[1] >> ELSE << >>)
       \o SelectSeq2(Tail(list), Tail(keep))

\* item => item.epochGradeDate && item.epochGradeDate >= cutoffTs
InWindow(item, cutoff) == HasDate(item) /\ item.epochGradeDate >= cutoff

\* (a, b) => (b.epochGradeDate || 0) - (a.epochGradeDate || 0)
Compare(a, b) == DateOrZero(b) - DateOrZero(a)

\* Array.prototype.sort(compare), which is stable
RECURSIVE Insert(_, _)
Insert(x, sorted) ==
  IF sorted = << >> THEN << x >>
  ELSE IF Compare(sorted[1], x) <= 0 THEN << sorted[1] >> \o Insert(x, Tail(sorted))
  ELSE << x >> \o sorted

RECURSIVE Sort(_)
Sort(list) ==
  IF list = << >> THEN << >>
  ELSE Insert(list[Len(list)], Sort(SubSeq(list, 1, Len(list) - 1)))

Filtered(list, cutoff) ==
  Sort(SelectSeq2(list, [i \in 1 .. Len(list) |-> InWindow(list[i], cutoff)]))

\* the filter over seenFirms
RECURSIVE UniqueByFirm(_, _)
UniqueByFirm(list, seenFirms) ==
  IF list = << >> THEN << >>
  ELSE IF list[1].firm \in seenFirms THEN UniqueByFirm(Tail(list), seenFirms)
  ELSE << list[1] >> \o UniqueByFirm(Tail(list), seenFirms \cup {list[1].firm})

\* new Date(item.epochGradeDate * 1000).toISOString(), or null
GradeDate(item) ==
  IF HasDate(item) THEN << "Date ", ToString(item.epochGradeDate * 1000) >> ELSE null

\* ({ ...item, gradeDate })
WithGradeDate(item) ==
  [firm |-> item.firm, dated |-> item.dated,
   epochGradeDate |-> item.epochGradeDate, gradeDate |-> GradeDate(item)]

\* what getRecommendations serialises for upgrades_downgrades
Shaped(list, cutoff) ==
  LET unique == UniqueByFirm(Filtered(list, cutoff), {})
  IN [i \in 1 .. Len(unique) |-> WithGradeDate(unique[i])]

\* uniqueByFirm before the tool has run
NotShaped ==
  << [firm |-> "", dated |-> FALSE, epochGradeDate |-> 0, gradeDate |-> null] >>

\* ------------------------------------------------------------- state
VARIABLES
  impl,          \* which build of the API client the process runs
  clock,         \* Date.now()
  cachedCookie, cachedCrumb, cacheExpiry,   \* the module's cache
  pc,            \* per tool call: the await it is suspended at
  tool,          \* per tool call: the tool function running
  now,           \* per tool call: getCrumb's local now
  cookies,       \* per tool call: getCrumb's local cookies
  response,      \* per tool call: the last response an await returned
  auth,          \* per tool call: what getCrumb returned to fetchYahoo
  request,       \* per tool call: the request the call is awaiting
  sent,          \* per tool call: the kinds of request fetchYahoo has issued
  result,        \* per tool call: what the tool function returned
  sequential,    \* the scenario: one caller, or NumTasks concurrent ones
  acquired,      \* sequential only: the last two completed getCrumb calls
  pathname,      \* the HTTP entrypoint: url.pathname of the last request
  served,        \* the HTTP entrypoint: what it answered
  history,       \* getRecommendations: upgradeDowngradeHistory.history
  cutoffTs,      \* getRecommendations: cutoffTs
  uniqueByFirm   \* getRecommendations: the entries it returns

vars ==
  << impl, clock, cachedCookie, cachedCrumb, cacheExpiry, pc, tool, now,
     cookies, response, auth, request, sent, result, sequential, acquired,
     pathname, served, history, cutoffTs, uniqueByFirm >>

\* the API client: the cache and the tool calls in flight
client ==
  << impl, clock, cachedCookie, cachedCrumb, cacheExpiry, pc, tool, now,
     cookies, response, auth, request, sent, result, sequential, acquired >>

\* the HTTP entrypoint's request and answer
http == << pathname, served >>

\* the locals of getRecommendations' history shaping
shaping == << history, cutoffTs, uniqueByFirm >>

cache == << cachedCookie, cachedCrumb, cacheExpiry >>

NoRequest == Request("none", << >>, HEADERS, "default")

ClientInit(seq) ==
  /\ impl \in Impls
  /\ clock = TickMs
  /\ cachedCookie = null
  /\ cachedCrumb = null
  /\ cacheExpiry = 0
  /\ pc = [t \in Tasks |-> "idle"]
  /\ tool = [t \in Tasks |-> "none"]
  /\ now = [t \in Tasks |-> 0]
  /\ cookies = [t \in Tasks |-> << >>]
  /\ response = [t \in Tasks |-> NoResponse]
  /\ auth = [t \in Tasks |-> NoAuth]
  /\ request = [t \in Tasks |-> NoRequest]
  /\ sent = [t \in Tasks |-> << >>]
  /\ result = [t \in Tasks |-> NoResult]
  /\ sequential = seq
  /\ acquired = << >>

\* no HTTP request received, no history shaped
HttpIdle == pathname = << >> /\ served = NoAnswer
ShapingIdle == history = << >> /\ cutoffTs = 0 /\ uniqueByFirm = NotShaped

InitWith(seq) == ClientInit(seq) /\ HttpIdle /\ ShapingIdle

Init == InitWith(TRUE)
InitRace == InitWith(FALSE)

\* mutant: the expiry compared with <=
CacheFreshInclusive(nowv) ==
  Truthy(cachedCrumb) /\ Truthy(cachedCookie) /\ nowv <= cacheExpiry

\* if (cachedCrumb && cachedCookie && now < cacheExpiry)
CacheFresh(nowv) ==
  Truthy(cachedCrumb) /\ Truthy(cachedCookie) /\ nowv < cacheExpiry

\* The log of completed getCrumb calls (kept when sequential): start is the
\* call's now, handshake whether it issued a request, ret what it returned.
Acquired(start, handshake, ret) ==
  [start |-> start, handshake |-> handshake, ret |-> ret]

Log(entry) ==
  acquired' =
    IF ~ sequential THEN acquired
    ELSE IF Len(acquired) < 2 THEN Append(acquired, entry)
    ELSE << acquired[2], entry >>

\* fetch(url, init): the call suspends at p until the request is answered
Fetch(t, req, p) ==
  /\ request' = [request EXCEPT ![t] = req]
  /\ sent' = [sent EXCEPT ![t] = Append(@, req.kind)]
  /\ pc' = [pc EXCEPT ![t] = p]

\* getCrumb returned a to fetchYahoo, which issues its data request
IssueData(t, a) ==
  /\ auth' = [auth EXCEPT ![t] = a]
  /\ Fetch(t, DataRequest(Url(tool'[t]), a), "data")

\* the tool function returns x to the tool handler; fetchYahoo's locals end
Return(t, x) ==
  /\ result' = [result EXCEPT ![t] = x]
  /\ pc' = [pc EXCEPT ![t] = "done"]
  /\ auth' = [auth EXCEPT ![t] = NoAuth]
  /\ request' = [request EXCEPT ![t] = NoRequest]
  /\ sent' = [sent EXCEPT ![t] = << >>]

\* A tool handler calls tool function f, which calls fetchYahoo, which runs
\* to its first await: the data request, or the handshake's cookie request.
Call(t, f) ==
  /\ pc[t] = "idle"
  /\ tool' = [tool EXCEPT ![t] = f]
  /\ UNCHANGED << impl, clock, cache, cookies, response, result, sequential, http, shaping >>
  /\ IF ~ NeedsCrumb(impl, f)
     THEN /\ IssueData(t, NoAuth)
          /\ UNCHANGED << now, acquired >>
     ELSE IF CacheFresh(clock)
     THEN /\ IssueData(t, Pair(cachedCookie, cachedCrumb))
          /\ UNCHANGED now
          /\ Log(Acquired(clock, FALSE, Pair(cachedCookie, cachedCrumb)))
     ELSE /\ now' = [now EXCEPT ![t] = clock]
          /\ Fetch(t, CookieRequest(impl), IF impl = "optional" THEN "fc" ELSE "home")
          /\ UNCHANGED << auth, acquired >>

\* mutant: a failed handshake goes on to an unauthenticated data request
FailFallsBack(t, e) ==
  /\ IssueData(t, NullAuth)
  /\ Log(Acquired(now[t], TRUE, NullAuth))
  /\ now' = [now EXCEPT ![t] = 0]
  /\ cookies' = [cookies EXCEPT ![t] = << >>]
  /\ UNCHANGED << cache, result >>

\* getCookieAndCrumb throws e: fetchYahoo throws it on, the tool catches it
Fail(t, e) ==
  /\ Return(t, ToolCatch(Thrown(e)))
  /\ Log(Acquired(now[t], TRUE, ThrowAuth))
  /\ now' = [now EXCEPT ![t] = 0]
  /\ cookies' = [cookies EXCEPT ![t] = << >>]
  /\ UNCHANGED cache

\* mutant: a failed handshake is thrown on to the tool
GiveUpThrows(t) == Fail(t, NetworkError)

\* mutant: a failed handshake falls back on the pair in the cache
GiveUpReturnsCached(t) ==
  /\ IssueData(t, IF Truthy(cachedCookie) /\ Truthy(cachedCrumb)
                  THEN Pair(cachedCookie, cachedCrumb) ELSE NullAuth)
  /\ Log(Acquired(now[t], TRUE, NullAuth))
  /\ now' = [now EXCEPT ![t] = 0]
  /\ cookies' = [cookies EXCEPT ![t] = << >>]
  /\ UNCHANGED << cache, result >>

\* getCrumb gives up: it returns null, and fetchYahoo goes on without it
GiveUp(t) ==
  /\ IssueData(t, NullAuth)
  /\ Log(Acquired(now[t], TRUE, NullAuth))
  /\ now' = [now EXCEPT ![t] = 0]
  /\ cookies' = [cookies EXCEPT ![t] = << >>]
  /\ UNCHANGED << cache, result >>

\* the handshake goes on to its crumb request with the cookie c
AskCrumb(t, c) ==
  /\ cookies' = [cookies EXCEPT ![t] = c]
  /\ Fetch(t, CrumbRequest(impl, c), "crumb")
  /\ UNCHANGED << cache, now, auth, result, acquired >>

\* getCrumb: the request to fc.yahoo.com is answered
FcResponse(t, r) ==
  /\ impl = "optional"
  /\ pc[t] = "fc"
  /\ response' = [response EXCEPT ![t] = r]
  /\ UNCHANGED << impl, clock, tool, sequential, http, shaping >>
  /\ IF r.kind = "exception" THEN GiveUp(t)
     ELSE IF ParseSetCookie(impl, r.setCookie) = << >>
     THEN /\ Fetch(t, FallbackRequest, "finance")
          /\ UNCHANGED << cache, now, cookies, auth, result, acquired >>
     ELSE AskCrumb(t, ParseSetCookie(impl, r.setCookie))

\* getCrumb: the fallback request to finance.yahoo.com is answered
FinanceResponse(t, r) ==
  /\ impl = "optional"
  /\ pc[t] = "finance"
  /\ response' = [response EXCEPT ![t] = r]
  /\ UNCHANGED << impl, clock, tool, sequential, http, shaping >>
  /\ IF r.kind = "exception" \/ ParseSetCookie(impl, r.setCookie) = << >>
     THEN GiveUp(t)
     ELSE AskCrumb(t, ParseSetCookie(impl, r.setCookie))

\* mutant: a pair that another call cached meanwhile is kept
StoreFirstWins(t, crumb) ==
  /\ cachedCrumb' = (IF CacheFresh(clock) THEN cachedCrumb ELSE crumb)
  /\ cachedCookie' = (IF CacheFresh(clock) THEN cachedCookie ELSE cookies[t])
  /\ cacheExpiry' = (IF CacheFresh(clock) THEN cacheExpiry ELSE NewExpiry(now[t]))
  /\ IssueData(t, Pair(cookies[t], crumb))
  /\ Log(Acquired(now[t], TRUE, Pair(cookies[t], crumb)))
  /\ now' = [now EXCEPT ![t] = 0]
  /\ cookies' = [cookies EXCEPT ![t] = << >>]
  /\ UNCHANGED result

\* mutant: a cookie already in the cache is kept (cachedCookie ||= cookies)
StoreKeepsCookie(t, crumb) ==
  /\ cachedCrumb' = crumb
  /\ cachedCookie' = (IF Truthy(cachedCookie) THEN cachedCookie ELSE cookies[t])
  /\ cacheExpiry' = NewExpiry(now[t])
  /\ IssueData(t, Pair(cookies[t], crumb))
  /\ Log(Acquired(now[t], TRUE, Pair(cookies[t], crumb)))
  /\ now' = [now EXCEPT ![t] = 0]
  /\ cookies' = [cookies EXCEPT ![t] = << >>]
  /\ UNCHANGED result

\* the cache is written and the pair returned
Store(t, crumb) ==
  /\ cachedCrumb' = crumb
  /\ cachedCookie' = cookies[t]
  /\ cacheExpiry' = NewExpiry(now[t])
  /\ IssueData(t, Pair(cookies[t], crumb))
  /\ Log(Acquired(now[t], TRUE, Pair(cookies[t], crumb)))
  /\ now' = [now EXCEPT ![t] = 0]
  /\ cookies' = [cookies EXCEPT ![t] = << >>]
  /\ UNCHANGED result

\* getCrumb: the crumb request is answered (status, then body)
CrumbResponse(t, r) ==
  /\ impl = "optional"
  /\ pc[t] = "crumb"
  /\ response' = [response EXCEPT ![t] = r]
  /\ UNCHANGED << impl, clock, tool, sequential, http, shaping >>
  /\ IF r.kind = "exception" \/ CrumbInvalid(impl, r)
     THEN GiveUp(t)
     ELSE Store(t, r.body)

\* getCookieAndCrumb: the request to finance.yahoo.com is answered
HomeResponse(t, r) ==
  /\ impl = "required"
  /\ pc[t] = "home"
  /\ response' = [response EXCEPT ![t] = r]
  /\ UNCHANGED << impl, clock, tool, sequential, http, shaping >>
  /\ IF r.kind = "exception" THEN Fail(t, NetworkError)
     ELSE IF ParseSetCookie(impl, r.setCookie) = << >> THEN Fail(t, CookieError)
     ELSE AskCrumb(t, ParseSetCookie(impl, r.setCookie))

\* getCookieAndCrumb: the crumb request is answered
CrumbResponseRequired(t, r) ==
  /\ impl = "required"
  /\ pc[t] = "crumb"
  /\ response' = [response EXCEPT ![t] = r]
  /\ UNCHANGED << impl, clock, tool, sequential, http, shaping >>
  /\ IF r.kind = "exception" THEN Fail(t, NetworkError)
     ELSE IF CrumbInvalid(impl, r) THEN Fail(t, CrumbError)
     ELSE Store(t, r.body)

\* mutant: a status that is not ok drops the cached pair
DataResponseInvalidates(t, r) ==
  /\ pc[t] = "data"
  /\ response' = [response EXCEPT ![t] = r]
  /\ Return(t, ToolCatch(TryBody(impl, tool[t], r)))
  /\ cachedCookie' = (IF r.kind = "http" /\ ~ r.ok THEN null ELSE cachedCookie)
  /\ cachedCrumb' = (IF r.kind = "http" /\ ~ r.ok THEN null ELSE cachedCrumb)
  /\ cacheExpiry' = (IF r.kind = "http" /\ ~ r.ok THEN 0 ELSE cacheExpiry)
  /\ UNCHANGED << impl, clock, tool, now, cookies, sequential, acquired,
                  http, shaping >>

\* fetchYahoo: the data request is answered; the tool function returns
DataResponse(t, r) ==
  /\ pc[t] = "data"
  /\ response' = [response EXCEPT ![t] = r]
  /\ Return(t, ToolCatch(TryBody(impl, tool[t], r)))
  /\ UNCHANGED << impl, clock, cache, tool, now, cookies, sequential, acquired,
                  http, shaping >>

\* the tool handler wraps the text into its content and the call is over
Deliver(t) ==
  /\ pc[t] = "done"
  /\ pc' = [pc EXCEPT ![t] = "idle"]
  /\ tool' = [tool EXCEPT ![t] = "none"]
  /\ response' = [response EXCEPT ![t] = NoResponse]
  /\ result' = [result EXCEPT ![t] = NoResult]
  /\ UNCHANGED << impl, clock, cache, now, cookies, auth, request, sent,
                  sequential, acquired, http, shaping >>

\* time passes
Tick ==
  /\ clock < (IF sequential THEN MaxTicks ELSE RaceTicks) * TickMs
  /\ clock' = clock + TickMs
  /\ UNCHANGED << impl, cache, pc, tool, now, cookies, response, auth, request,
                  sent, result, sequential, acquired, http, shaping >>

\* who calls what, and what the upstream answers, in the two scenarios
Callers == IF sequential THEN {1} ELSE Tasks
Called == IF sequential THEN ToolNames ELSE RaceTools
CookieAnswers == IF sequential THEN CookieResponses ELSE RaceCookieResponses
CrumbAnswers == IF sequential THEN CrumbResponses ELSE RaceCrumbResponses
DataAnswers == IF sequential THEN DataResponses ELSE RaceDataResponses

Next ==
  \/ \E t \in Callers, f \in Called : Call(t, f)
  \/ \E t \in Tasks, r \in CookieAnswers : FcResponse(t, r)
  \/ \E t \in Tasks, r \in CookieAnswers : FinanceResponse(t, r)
  \/ \E t \in Tasks, r \in CrumbAnswers : CrumbResponse(t, r)
  \/ \E t \in Tasks, r \in CookieAnswers : HomeResponse(t, r)
  \/ \E t \in Tasks, r \in CrumbAnswers : CrumbResponseRequired(t, r)
  \/ \E t \in Tasks, r \in DataAnswers : DataResponse(t, r)
  \/ \E t \in Tasks : Deliver(t)
  \/ Tick

Spec == Init /\ [][Next]_vars
SpecRace == InitRace /\ [][Next]_vars

\* ---------------------------------------- the HTTP entrypoint at work
\* export default { fetch(request, env, ctx) }: a request for path p
fetch(p) ==
  /\ pathname' = p
  /\ served' = Route(p)
  /\ UNCHANGED << client, shaping >>

NextHttp == \E p \in Pathnames : fetch(p)

SpecHttp == Init /\ [][NextHttp]_vars

\* ------------------------------------- getRecommendations at work
\* the tool is called with a history from the upstream and a cutoff
InitShaping ==
  /\ ClientInit(TRUE) /\ HttpIdle
  /\ history \in Histories
  /\ cutoffTs \in Cutoffs
  /\ uniqueByFirm = NotShaped

Recommend ==
  /\ uniqueByFirm = NotShaped
  /\ uniqueByFirm' = Shaped(history, cutoffTs)
  /\ UNCHANGED << client, http, history, cutoffTs >>

NextShaping == Recommend

SpecShaping == InitShaping /\ [][NextShaping]_vars

\* ================================================================ claims
HandshakePcs == {"fc", "finance", "home", "crumb"}

Count(s, k) == Cardinality({i \in 1 .. Len(s) : s[i] = k})

\* ----- C1 -----
\* C1 as stated: of any two getCrumb calls made one after the other less
\* than 30 minutes apart, at most one performs the handshake and the second
\* returns the pair the first returned.
C1_AnyTwoCalls ==
  (impl = "optional" /\ Len(acquired) = 2
     /\ acquired[2].start - acquired[1].start < CACHE_TTL)
  => /\ ~ (acquired[1].handshake /\ acquired[2].handshake)
     /\ acquired[2].ret = acquired[1].ret

\* C1 amended: when the first of two getCrumb calls made one after the other
\* performed a handshake that succeeded, and the second starts less than 30
\* minutes after the first started, the second issues no request and returns
\* the pair the first returned.
C1_CacheFreshness ==
  (impl = "optional" /\ Len(acquired) = 2
     /\ acquired[1].handshake /\ acquired[1].ret.kind = "pair"
     /\ acquired[2].start - acquired[1].start < CACHE_TTL)
  => /\ ~ acquired[2].handshake
     /\ acquired[2].ret = acquired[1].ret

\* a second call 20 minutes after a first that filled the cache
C1_Witness ==
  /\ impl = "optional" /\ Len(acquired) = 2
  /\ acquired[1].handshake /\ acquired[1].ret.kind = "pair"
  /\ acquired[2].start = acquired[1].start + 2 * TickMs
  /\ ~ acquired[2].handshake

\* ----- C2 -----
\* C2: a getCrumb/getCookieAndCrumb call made with an empty cache, or at or
\* after cacheExpiry, returns nothing at once: it issues the cookie request
\* as the first request of a handshake; and a pair a handshake returns is
\* the cookie parsed from that handshake's cookie response with the body of
\* that handshake's crumb response.
C2_StepOf(t) ==
  /\ ( /\ pc[t] = "idle" /\ pc'[t] # "idle"
       /\ NeedsCrumb(impl, tool'[t])
       /\ (cachedCookie = null \/ cachedCrumb = null \/ clock >= cacheExpiry) )
     => /\ pc'[t] = (IF impl = "optional" THEN "fc" ELSE "home")
        /\ sent'[t] = << pc'[t] >>
        /\ request'[t].kind = pc'[t]
        /\ auth'[t] = NoAuth
        /\ now'[t] = clock
  /\ (pc[t] # "crumb" /\ pc'[t] = "crumb")
     => /\ pc[t] \in {"fc", "finance", "home"}
        /\ response'[t].kind = "http" /\ Truthy(response'[t].setCookie)
        /\ Truthy(cookies'[t])
        /\ request'[t].headers["Cookie"] = cookies'[t]
  /\ (pc[t] \in HandshakePcs /\ auth'[t].kind = "pair")
     => /\ pc[t] = "crumb"
        /\ auth'[t].cookie = cookies[t]
        /\ auth'[t].crumb = response'[t].body

C2_ExpiredRefreshes == [][\A t \in Tasks : C2_StepOf(t)]_vars

\* a handshake under way that began at or after the expiry of a cached pair
C2_Witness ==
  \E t \in Tasks :
    /\ pc[t] \in {"fc", "home"}
    /\ Truthy(cachedCookie) /\ Truthy(cachedCrumb)
    /\ now[t] >= cacheExpiry

\* ----- C3 -----
\* C3: the cached cookie and the cached crumb are both null or both
\* non-empty strings, in every state of every interleaving.
C3_PairOrNothing ==
  \/ cachedCookie = null /\ cachedCrumb = null
  \/ /\ cachedCookie # null /\ cachedCookie # << >>
     /\ cachedCrumb # null /\ cachedCrumb # << >>

\* two calls raced: one has filled the cache, the other is still suspended
\* at the crumb request of its own handshake
C3_Witness ==
  /\ ~ sequential
  /\ cachedCookie # null /\ cachedCrumb # null
  /\ \E t \in Tasks : pc[t] = "crumb" /\ cookies[t] # cachedCookie

\* ----- C4 -----
\* C4 as stated: when getCrumb returns a pair, the expiry of that pair is
\* later than the time of the return, for a cache hit and for a handshake.
C4_StepOf(t) ==
  (impl = "optional" /\ auth[t].kind # "pair" /\ auth'[t].kind = "pair")
  => clock' < cacheExpiry'

C4_ReturnedPairUnexpired == [][\A t \in Tasks : C4_StepOf(t)]_vars

\* ----- C5 -----
\* C5 as stated: a crumb response with a status that is not ok, or a body
\* that is empty or holds "<" or "error", makes the call fail and leaves the
\* cache alone; any other makes it return and cache the body as the crumb.
C5_Refused(r) ==
  \/ ~ r.ok
  \/ r.body = << >>
  \/ \E k \in 1 .. Len(r.body) : r.body[k] = "<"
  \/ \E k \in 1 .. Len(r.body) - 4 :
       SubSeq(r.body, k, k + 4) = << "e", "r", "r", "o", "r" >>

C5_StepOf(t) ==
  (pc[t] = "crumb" /\ pc'[t] # "crumb" /\ response'[t].kind = "http")
  => IF C5_Refused(response'[t])
     THEN auth'[t].kind # "pair" /\ cache' = cache
     ELSE /\ auth'[t] = Pair(cookies[t], response'[t].body)
          /\ cachedCrumb' = response'[t].body

C5_CrumbValidation == [][\A t \in Tasks : C5_StepOf(t)]_vars

\* ----- C6 -----
\* C6: a tool function that has returned has returned text, whatever the
\* handshake, the data request and the parsing of the body did; when any of
\* them threw, the text begins with "Error: "; nothing is thrown on to the
\* tool handler.
C6_Parsed(r) ==
  r.kind = "http" /\ r.ok /\ r.json \in JsonKinds \ {"invalid"}

C6_AlwaysText ==
  \A t \in Tasks :
    pc[t] = "done"
    => /\ result[t].kind = "text"
       /\ tool[t] \in ToolNames
       /\ ~ C6_Parsed(response[t])
          => Len(result[t].text) >= 1 /\ result[t].text[1] = "Error: "

\* a tool has returned after json() threw on the body
C6_Witness ==
  \E t \in Tasks :
    /\ pc[t] = "done" /\ response[t].json = "invalid"
    /\ result[t].kind = "text" /\ result[t].text[1] = "Error: "

\* ----- C7 -----
\* C7: in src/src/yahoo-finance-api.ts, when getCrumb fails (a rejected
\* fetch, no cookie from either cookie request, a crumb status that is not
\* ok, a refused crumb body), fetchYahoo(url, true) issues one data request,
\* to url as given and with HEADERS alone, and what the tool returns is what
\* the answer to that request makes it.
C7_HandshakeFailed(p, r) ==
  \/ r.kind = "exception"
  \/ p = "finance" /\ ParseSetCookie("optional", r.setCookie) = << >>
  \/ p = "crumb" /\ C5_Refused(r)

C7_StepOf(t) ==
  /\ ( /\ impl = "optional" /\ pc[t] \in {"fc", "finance", "crumb"}
       /\ pc'[t] # pc[t] /\ C7_HandshakeFailed(pc[t], response'[t]) )
     => /\ pc'[t] = "data"
        /\ auth'[t].kind = "null"
        /\ Count(sent[t], "data") = 0
        /\ sent'[t] = Append(sent[t], "data")
        /\ request'[t].kind = "data"
        /\ request'[t].url = Url(tool[t])
        /\ DOMAIN request'[t].headers = {"User-Agent", "Accept", "Accept-Language"}
  /\ (impl = "optional" /\ pc[t] = "data" /\ auth[t].kind = "null")
     => /\ Count(sent[t], "data") = 1
        /\ request[t].url = Url(tool[t])
        /\ "Cookie" \notin DOMAIN request[t].headers
        /\ pc'[t] # "data"
           => /\ pc'[t] = "done"
              /\ result'[t] = ToolCatch(TryBody(impl, tool[t], response'[t]))

C7_FallsBackUnauthenticated == [][\A t \in Tasks : C7_StepOf(t)]_vars

\* the data request of a call whose handshake failed at the crumb body
C7_Witness ==
  \E t \in Tasks :
    /\ impl = "optional" /\ pc[t] = "data" /\ auth[t].kind = "null"
    /\ response[t].kind = "http" /\ response[t].body = << "<", "p", ">" >>

\* ----- C8 -----
\* C8: in src/unnamed/part_001, when the handshake of fetchYahoo(url, true)
\* fails (no cookie, a crumb body that is empty or holds "error", a rejected
\* fetch), no data request is issued, the cache is as it was, and the tool
\* function returns text beginning with "Error: ".
C8_HandshakeFailed(p, r) ==
  \/ r.kind = "exception"
  \/ p = "home" /\ (r.setCookie = null \/ r.setCookie = << >>)
  \/ p = "crumb"
       /\ \/ r.body = << >>
          \/ \E k \in 1 .. Len(r.body) - 4 :
               SubSeq(r.body, k, k + 4) = << "e", "r", "r", "o", "r" >>

C8_StepOf(t) ==
  ( /\ impl = "required" /\ pc[t] \in {"home", "crumb"}
    /\ pc'[t] # pc[t] /\ C8_HandshakeFailed(pc[t], response'[t]) )
  => /\ pc'[t] = "done"
     /\ Count(sent[t], "data") = 0
     /\ request'[t] = NoRequest
     /\ cache' = cache
     /\ result'[t].kind = "text"
     /\ result'[t].text[1] = "Error: "

C8_HardFailure == [][\A t \in Tasks : C8_StepOf(t)]_vars

\* a tool has returned after the crumb body held "error", the cache filled
\* by an earlier call
C8_Witness ==
  \E t \in Tasks :
    /\ impl = "required" /\ pc[t] = "done"
    /\ response[t].body = << "x", "e", "r", "r", "o", "r" >>
    /\ result[t].text[1] = "Error: "
    /\ cachedCookie # null

\* ----- C9 -----
\* C9: the data request of fetchYahoo carries Cookie: <the acquired cookie>
\* and url + ("&" if url holds "?", else "?") + "crumb=" + the url-encoded
\* crumb, once, exactly when the tool asks for the crumb and getCrumb
\* returned a pair; otherwise it goes to url with no Cookie header.  Every
\* request carries the User-Agent, Accept and Accept-Language of HEADERS.
C9_Decode(code) ==
  CASE code = << "2", "6" >> -> "&"
    [] code = << "3", "C" >> -> "<"
    [] code = << "3", "E" >> -> ">"
    [] code = << "2", "0" >> -> " "
    [] code = << "3", "D" >> -> "="
    [] code = << "3", "B" >> -> ";"
    [] code = << "3", "F" >> -> "?"
    [] code = << "2", "F" >> -> "/"
    [] code = << "2", "C" >> -> ","
    [] code = << "2", "5" >> -> "%"
    [] OTHER -> "?"

RECURSIVE C9_PercentDecode(_)
C9_PercentDecode(s) ==
  IF s = << >> THEN << >>
  ELSE IF s[1] = "%" /\ Len(s) >= 3
  THEN << C9_Decode(SubSeq(s, 2, 3)) >> \o C9_PercentDecode(SubSeq(s, 4, Len(s)))
  ELSE << s[1] >> \o C9_PercentDecode(Tail(s))

C9_FixedHeaders(r) ==
  \A h \in {"User-Agent", "Accept", "Accept-Language"} :
    h \in DOMAIN r.headers /\ r.headers[h] = HEADERS[h]

C9_RequestOf(t) ==
  LET r == request[t]
      u == Url(tool[t])
      k == Len(u)
      authed == NeedsCrumb(impl, tool[t]) /\ auth[t].kind = "pair"
  IN /\ pc[t] \in HandshakePcs => C9_FixedHeaders(r)
     /\ pc[t] = "data"
        => /\ C9_FixedHeaders(r)
           /\ r.kind = "data"
           /\ IF authed
              THEN /\ "Cookie" \in DOMAIN r.headers
                   /\ r.headers["Cookie"] = auth[t].cookie
                   /\ Len(r.url) >= k + 2
                   /\ SubSeq(r.url, 1, k) = u
                   /\ r.url[k + 1] = (IF \E i \in 1 .. k : u[i] = "?" THEN "&" ELSE "?")
                   /\ r.url[k + 2] = "crumb="
                   /\ \A i \in (k + 3) .. Len(r.url) :
                        r.url[i] \notin {"&", "?", "=", "<", ">", " ", "/", "crumb="}
                   /\ C9_PercentDecode(SubSeq(r.url, k + 3, Len(r.url))) = auth[t].crumb
                   /\ Count(r.url, "crumb=") = 1
              ELSE /\ "Cookie" \notin DOMAIN r.headers
                   /\ r.url = u
                   /\ Count(r.url, "crumb=") = 0

C9_RequestConstruction == \A t \in Tasks : C9_RequestOf(t)

\* an authenticated request for a url without "?" and the crumb "c&d"
C9_Witness ==
  \E t \in Tasks :
    /\ pc[t] = "data" /\ auth[t].kind = "pair"
    /\ tool[t] = "getOptionExpirationDates"
    /\ auth[t].crumb = << "c", "&", "d" >>
    /\ SubSeq(request[t].url, Len(request[t].url) - 6, Len(request[t].url))
         = << "?", "crumb=", "c", "%", "2", "6", "d" >>

\* ----- C10 -----
\* what C10 says of the answer to the data request: a status that is not ok
\* fails the call with the status and no more than the first 200 characters
\* of the body, any other answer is handed to the tool as it is
C10_Outcome(t) ==
  LET r == response'[t]
      x == result'[t].text
  IN /\ (r.kind = "http" /\ ~ r.ok)
        => /\ Len(x) >= 5
           /\ SubSeq(x, 1, 3) = << "Error: ", "Error: ", "HTTP " >>
           /\ x[4] = ToString(r.status)
           /\ IF impl = "optional"
              THEN /\ Len(x) - 5 = (IF Len(r.body) < 200 THEN Len(r.body) ELSE 200)
                   /\ \A i \in 1 .. (Len(x) - 5) : x[5 + i] = r.body[i]
              ELSE Len(x) = 6 /\ x[6] \notin {r.body[i] : i \in 1 .. Len(r.body)}
     /\ (r.kind = "http" /\ r.ok) => result'[t] = ToolCatch(ToolParse(tool[t], r))

\* C10 as stated: every fetchYahoo call issues exactly one data request.
C10_StepOfAsStated(t) ==
  (pc[t] # "done" /\ pc'[t] = "done")
  => Count(sent[t], "data") = 1 /\ C10_Outcome(t)

C10_ExactlyOneRequest == [][\A t \in Tasks : C10_StepOfAsStated(t)]_vars

\* C10 amended: a fetchYahoo call issues one data request and never a
\* second; the one exception is a call of src/unnamed/part_001 whose
\* handshake throws, which issues none.
C10_StepOf(t) ==
  /\ Count(sent[t], "data") <= 1
  /\ (pc[t] = "data") = (Count(sent[t], "data") = 1)
  /\ (pc[t] = "data" /\ pc'[t] # "data") => pc'[t] = "done"
  /\ (pc[t] # "done" /\ pc'[t] = "done")
     => IF pc[t] = "data"
        THEN C10_Outcome(t)
        ELSE /\ impl = "required" /\ pc[t] \in {"home", "crumb"}
             /\ Count(sent[t], "data") = 0
             /\ C8_HandshakeFailed(pc[t], response'[t])

C10_OneRequestNoRetry == [][\A t \in Tasks : C10_StepOf(t)]_vars

\* a call has failed on a 404 whose body is longer than the preview
C10_Witness ==
  \E t \in Tasks :
    /\ impl = "optional" /\ pc[t] = "done"
    /\ response[t].status = 404 /\ Len(response[t].body) > PREVIEW_LEN
    /\ Len(result[t].text) = 5 + PREVIEW_LEN

\* ----- C11 -----
\* C11: no call waits for another.  A call that finds the cache empty or
\* expired begins its own handshake, also while another call's handshake is
\* under way; a handshake under way goes on to its crumb request and to its
\* cache write whatever other calls have written meanwhile; and a handshake
\* that succeeds leaves the cache holding its own cookie, crumb and expiry,
\* so after two have succeeded the cache holds what the later one wrote.
C11_StepOf(t) ==
  /\ ( /\ pc[t] = "idle" /\ pc'[t] # "idle"
       /\ (cachedCookie = null \/ cachedCrumb = null \/ clock >= cacheExpiry) )
     => /\ pc'[t] = (IF impl = "optional" THEN "fc" ELSE "home")
        /\ sent'[t] = << pc'[t] >>
  /\ ( /\ pc[t] \in {"fc", "finance", "home"} /\ pc'[t] # pc[t]
       /\ response'[t].setCookie # null )
     => pc'[t] = "crumb" /\ request'[t].kind = "crumb"
  /\ ( /\ pc[t] = "crumb" /\ pc'[t] # "crumb"
       /\ response'[t].kind = "http" /\ ~ C5_Refused(response'[t]) )
     => /\ cachedCookie' = request[t].headers["Cookie"]
        /\ cachedCrumb' = response'[t].body
        /\ cacheExpiry' = now[t] + 30 * 60 * 1000
        /\ auth'[t] = Pair(cachedCookie', cachedCrumb')

C11_LastWriterWins == [][\A t \in Tasks : C11_StepOf(t)]_vars

\* two calls have each completed a handshake of their own, with different
\* pairs, and the cache holds the pair of one of them
C11_Witness ==
  /\ ~ sequential
  /\ \E t, u \in Tasks :
       /\ t # u
       /\ pc[t] = "data" /\ Count(sent[t], "crumb") = 1 /\ auth[t].kind = "pair"
       /\ pc[u] = "data" /\ Count(sent[u], "crumb") = 1 /\ auth[u].kind = "pair"
       /\ auth[t] # auth[u]
       /\ cachedCookie = auth[u].cookie /\ cachedCrumb = auth[u].crumb

\* ----- C12 -----
C12_Begins(p, a, b, c) ==
  Len(p) >= 4 /\ p[1] = "/" /\ p[2] = a /\ p[3] = b /\ p[4] = c

C12_Delegated(p) == C12_Begins(p, "s", "s", "e") \/ C12_Begins(p, "m", "c", "p")

\* C12 as stated: the path "/" is answered with the JSON document, a path
\* beginning with /sse or /mcp is handed to the MCP transport, and every
\* other path is answered with status 404.
C12_OnlyRootDocumented ==
  served # NoAnswer
  => IF pathname = << "/" >> THEN served.handler = "Response.json" /\ served.status = 200
     ELSE IF C12_Delegated(pathname) THEN served.handler \in {"serveSSE", "serve"}
     ELSE served.status = 404

\* C12 amended: the paths "/" and "/health" are answered with the JSON
\* document, a path beginning with /sse is handed to the SSE transport, a
\* path beginning with /mcp to the streamable HTTP transport, and every
\* other path is answered with status 404; each request has one of these
\* four outcomes.
C12_Routing ==
  served # NoAnswer
  => /\ served \in {Documentation, ServeSSE, Serve, NotFound}
     /\ IF pathname \in {<< "/" >>, << "/", "h", "e", "a", "l", "t", "h" >>}
        THEN served.handler = "Response.json" /\ served.status = 200
        ELSE IF C12_Begins(pathname, "s", "s", "e")
        THEN served.handler = "serveSSE" /\ served.body = "/sse"
        ELSE IF C12_Begins(pathname, "m", "c", "p")
        THEN served.handler = "serve" /\ served.body = "/mcp"
        ELSE served.status = 404 /\ served.body = "Not found"

\* the path /health has been answered with the document
C12_Witness ==
  /\ pathname = << "/", "h", "e", "a", "l", "t", "h" >>
  /\ served = Documentation

\* ----- C13 -----
\* C13: when the data request of a tool other than the news tool is answered
\* with an ok status and a body that parses, the tool returns "Error: " and
\* the description whenever the body holds an error object, also beside a
\* result; otherwise, when it holds no result[0], exactly "Ticker <ticker>
\* not found." with the ticker as given; and a payload only when it holds a
\* result and no error object.
C13_ResultTools == ToolNames \ {"getYahooFinanceNews"}

C13_Of(t) ==
  LET j == response[t].json
      x == result[t].text
  IN ( /\ pc[t] = "done" /\ tool[t] \in C13_ResultTools
       /\ response[t].kind = "http" /\ response[t].ok
       /\ j \in JsonKinds \ {"invalid"} )
     => /\ result[t].kind = "text"
        /\ j \in {"error", "errordata"} => x = << "Error: ", "description" >>
        /\ j = "empty" => x = << "Ticker ", "B", "/", "B", " not found." >>
        /\ x = << "JSON" >> => j \in {"nooptions", "data"}
        /\ j = "data" => x = << "JSON" >>

C13_ClassifiedInOrder == \A t \in Tasks : C13_Of(t)

\* the option chain tool has returned on a body holding an error object
\* beside a result
C13_Witness ==
  \E t \in Tasks :
    /\ pc[t] = "done" /\ tool[t] = "getOptionChain"
    /\ response[t].json = "errordata"
    /\ result[t].text = << "Error: ", "description" >>

\* ----- C14 -----
\* the entries of firm f dated at or after the cutoff
C14_Recent(f) ==
  {i \in 1 .. Len(history) :
     /\ history[i].firm = f /\ history[i].dated
     /\ history[i].epochGradeDate >= cutoffTs}

\* C14 as stated: the output holds one entry for each firm that has an entry
\* dated at or after the cutoff and none for any other firm; the entry is
\* the firm's entry with the greatest epochGradeDate; no entry is older than
\* the cutoff; the entries are in descending order of epochGradeDate.
C14_DedupByFirm ==
  uniqueByFirm # NotShaped
  => /\ \A f \in Firms :
          Cardinality({k \in 1 .. Len(uniqueByFirm) : uniqueByFirm[k].firm = f})
            = (IF C14_Recent(f) # {} THEN 1 ELSE 0)
     /\ \A k \in 1 .. Len(uniqueByFirm) :
          /\ uniqueByFirm[k].epochGradeDate >= cutoffTs
          /\ \E i \in C14_Recent(uniqueByFirm[k].firm) :
               history[i].epochGradeDate = uniqueByFirm[k].epochGradeDate
          /\ \A i \in C14_Recent(uniqueByFirm[k].firm) :
               history[i].epochGradeDate <= uniqueByFirm[k].epochGradeDate
     /\ \A k \in 1 .. (Len(uniqueByFirm) - 1) :
          uniqueByFirm[k].epochGradeDate >= uniqueByFirm[k + 1].epochGradeDate

\* ----- C15 -----
\* the answer r to a cookie request yields no cookie
C15_NoCookie(r) ==
  r.kind = "exception" \/ ParseSetCookie("optional", r.setCookie) = << >>

\* the handshake requests a getCrumb call may have issued, in order
C15_Sequences ==
  { << >>, << "fc" >>, << "fc", "finance" >>, << "fc", "crumb" >>,
    << "fc", "finance", "crumb" >> }

\* C15 as stated, of getCrumb in src/src/yahoo-finance-api.ts: one request
\* is issued at a time, each on the answer to the one before; the fallback
\* request to the main page is issued if and only if the primary cookie
\* request yielded no cookie; the crumb request is issued only on a cookie
\* answer that yielded a non-empty cookie, which it carries; a call issues at
\* most three handshake requests, and none on a cache hit.
C15_StepOf(t) ==
  impl = "optional"
  => /\ (pc[t] = "fc" /\ pc'[t] # "fc")
        => ((pc'[t] = "finance") <=> C15_NoCookie(response'[t]))
     /\ (pc[t] # "finance" /\ pc'[t] = "finance")
        => pc[t] = "fc" /\ request'[t] = FallbackRequest
     /\ (pc[t] # "crumb" /\ pc'[t] = "crumb")
        => /\ pc[t] \in {"fc", "finance"}
           /\ ~ C15_NoCookie(response'[t])
           /\ request'[t].kind = "crumb"
           /\ request'[t].headers["Cookie"]
                = ParseSetCookie("optional", response'[t].setCookie)
     /\ sent'[t] \in {sent[t], << >>} \cup {Append(sent[t], k) : k \in {"fc", "finance", "crumb", "data"}}
     /\ sent'[t] # sent[t] => pc'[t] # pc[t]
     /\ SelectSeq(sent'[t], LAMBDA k : k # "data") \in C15_Sequences
     /\ ( /\ pc[t] = "idle" /\ pc'[t] # "idle"
          /\ cachedCookie # null /\ cachedCrumb # null /\ clock < cacheExpiry )
        => sent'[t] = << "data" >>

C15_GatedRequests == [][\A t \in Tasks : C15_StepOf(t)]_vars

\* ----- C16 -----
\* C16: a step changes the cache only when it ends a handshake with a pair,
\* and then the cache is that handshake's cookie, crumb and expiry, all
\* three; a getCrumb call that fails (a rejected fetch, no cookie from either
\* cookie request, a crumb status that is not ok, a refused crumb body)
\* leaves the three fields as they were and returns null, also when the
\* cache holds an expired pair; and a pair returned without a handshake is
\* the cached pair before its expiry, so an expired pair is never returned.
C16_StepOf(t) ==
  /\ ( /\ impl = "optional" /\ pc[t] \in {"fc", "finance", "crumb"}
       /\ pc'[t] # pc[t] /\ C7_HandshakeFailed(pc[t], response'[t]) )
     => /\ cachedCookie' = cachedCookie
        /\ cachedCrumb' = cachedCrumb
        /\ cacheExpiry' = cacheExpiry
        /\ auth'[t] = NullAuth
        /\ "Cookie" \notin DOMAIN request'[t].headers
  /\ (pc[t] = "idle" /\ auth'[t].kind = "pair")
     => /\ clock < cacheExpiry
        /\ auth'[t] = Pair(cachedCookie, cachedCrumb)
        /\ cache' = cache

C16_Written ==
  cache' # cache
  => \E t \in Tasks :
       /\ pc[t] = "crumb" /\ auth'[t].kind = "pair"
       /\ cachedCookie' = auth'[t].cookie /\ cachedCookie' = cookies[t]
       /\ cachedCrumb' = auth'[t].crumb /\ cachedCrumb' = response'[t].body
       /\ cacheExpiry' = now[t] + 30 * 60 * 1000

C16_FailureKeepsCache == [][C16_Written /\ \A t \in Tasks : C16_StepOf(t)]_vars

\* a handshake begun on an expired pair has failed at the crumb status, and
\* the cache still holds the expired pair
C16_Witness ==
  \E t \in Tasks :
    /\ impl = "optional" /\ pc[t] = "data" /\ auth[t] = NullAuth
    /\ response[t].kind = "http" /\ ~ response[t].ok
    /\ cachedCookie # null /\ cachedCrumb # null /\ clock >= cacheExpiry

\* ----- C17 -----
\* C17: in every interleaving, a step that changes the cache is the end of
\* one call's handshake and writes the cookie that call presented in its
\* crumb request, the body that request was answered with, and the expiry
\* counted from that call's start; the cookie and the start a call holds
\* are its own, untouched by the steps of other calls.
C17_OneHandshake ==
  cache' # cache
  => \E t \in Tasks :
       /\ pc[t] = "crumb" /\ pc'[t] # "crumb" /\ request[t].kind = "crumb"
       /\ cachedCookie' = request[t].headers["Cookie"]
       /\ cachedCrumb' = response'[t].body
       /\ cacheExpiry' = now[t] + 30 * 60 * 1000

C17_OwnLocals(t) ==
  /\ pc[t] = "crumb" => request[t].headers["Cookie"] = cookies[t]
  /\ pc[t] \in HandshakePcs => now[t] <= clock /\ now[t] >= TickMs
  /\ pc'[t] = pc[t]
     => /\ cookies'[t] = cookies[t] /\ now'[t] = now[t]
        /\ request'[t] = request[t]

C17_SameHandshake == [][C17_OneHandshake /\ \A t \in Tasks : C17_OwnLocals(t)]_vars

\* two handshakes with different cookies and different crumbs have
\* completed, and the cache holds the cookie and the crumb of one of them
C17_Witness ==
  /\ ~ sequential
  /\ \E t, u \in Tasks :
       /\ pc[t] = "data" /\ Count(sent[t], "crumb") = 1
       /\ pc[u] = "data" /\ Count(sent[u], "crumb") = 1
       /\ auth[t] = Pair(cachedCookie, cachedCrumb)
       /\ auth[u].kind = "pair"
       /\ auth[u].cookie # cachedCookie /\ auth[u].crumb # cachedCrumb

\* ----- C18 -----
\* C18 as stated: no step of any interleaving of getCrumb calls replaces
\* cacheExpiry with an earlier time.
C18_ExpiryNeverDecreases == [][cacheExpiry' >= cacheExpiry]_vars

\* ----- C19 -----
\* C19: a data request that carried the cookie and is answered with a status
\* that is not ok leaves the cache as it was, as does handing the error text
\* to the caller; a handshake begins only on an empty or expired cache; and
\* a call that asks for the crumb before cacheExpiry sends the cached cookie
\* and the cached crumb with no request before its data request.
C19_StepOf(t) ==
  /\ ( /\ pc[t] = "data" /\ pc'[t] # "data"
       /\ "Cookie" \in DOMAIN request[t].headers
       /\ response'[t].kind = "http" /\ ~ response'[t].ok )
     => /\ cache' = cache
        /\ result'[t].kind = "text" /\ result'[t].text[3] = "HTTP "
  /\ (pc[t] = "done" /\ pc'[t] # "done") => cache' = cache
  /\ (pc[t] = "idle" /\ pc'[t] \in {"fc", "home"})
     => (cachedCookie = null \/ cachedCrumb = null \/ clock >= cacheExpiry)
  /\ ( /\ pc[t] = "idle" /\ pc'[t] # "idle" /\ NeedsCrumb(impl, tool'[t])
       /\ cachedCookie # null /\ cachedCrumb # null /\ clock < cacheExpiry )
     => /\ cache' = cache
        /\ sent'[t] = << "data" >>
        /\ request'[t].headers["Cookie"] = cachedCookie
        /\ LET k == Len(Url(tool'[t])) IN
             /\ SubSeq(request'[t].url, 1, k) = Url(tool'[t])
             /\ request'[t].url[k + 2] = "crumb="
             /\ C9_PercentDecode(SubSeq(request'[t].url, k + 3, Len(request'[t].url)))
                  = cachedCrumb

C19_RejectionKeepsCache == [][\A t \in Tasks : C19_StepOf(t)]_vars

\* an authenticated data request has been answered 401 and the cache still
\* holds the pair, before its expiry
C19_Witness ==
  \E t \in Tasks :
    /\ pc[t] = "done" /\ NeedsCrumb(impl, tool[t])
    /\ response[t].kind = "http" /\ response[t].status = 401
    /\ result[t].text[3] = "HTTP "
    /\ cachedCookie # null /\ cachedCrumb # null /\ clock < cacheExpiry

\* ----- C20 -----
\* the tools that call fetchYahoo(url, false)
C20_Unauthenticated ==
  IF impl = "optional"
  THEN {"getHistoricalStockPrices", "getYahooFinanceNews", "getStockActions"}
  ELSE {"getYahooFinanceNews"}

\* C20: a call of fetchYahoo(url, false) goes straight to its data request,
\* to url as given and with HEADERS alone, whatever the cache holds; it
\* issues no other request, getCrumb does not run (no start time taken,
\* nothing returned to fetchYahoo), and the cache is as it was at every step
\* of the call.
C20_StepOf(t) ==
  /\ (pc[t] = "idle" /\ pc'[t] # "idle" /\ tool'[t] \in C20_Unauthenticated)
     => /\ pc'[t] = "data"
        /\ sent'[t] = << "data" >>
        /\ request'[t].url = Url(tool'[t])
        /\ request'[t].headers = HEADERS
        /\ "Cookie" \notin DOMAIN request'[t].headers
        /\ auth'[t] = NoAuth /\ now'[t] = now[t] /\ acquired' = acquired
        /\ cache' = cache
  /\ tool[t] \in C20_Unauthenticated
     => /\ pc[t] \in {"data", "done"}
        /\ sent[t] \in {<< >>, << "data" >>}
        /\ Count(request[t].url, "crumb=") = 0
        /\ cache' = cache

C20_NoAcquire == [][\A t \in Tasks : C20_StepOf(t)]_vars

\* the news tool's request is in flight without a cookie while the cache
\* holds an unexpired pair
C20_Witness ==
  \E t \in Tasks :
    /\ pc[t] = "data" /\ tool[t] = "getYahooFinanceNews"
    /\ "Cookie" \notin DOMAIN request[t].headers
    /\ request[t].url = Url("getYahooFinanceNews")
    /\ cachedCookie # null /\ cachedCrumb # null /\ clock < cacheExpiry

====
